---- MODULE Spec2Model ----
(***************************************************************************)
(* A model of src/cc/bcc_proc.c (bcc): the mount-namespace guard, the      *)
(* /proc/<pid>/maps scanners and the shared-library locator with its       *)
(* process-wide ld.so cache.                                               *)
(***************************************************************************)
EXTENDS Integers, Sequences, FiniteSets, TLC

(***************************************************************************)
(* Bounds of the model.                                                    *)
(***************************************************************************)
\* Descriptors the process may hold at once (RLIMIT_NOFILE): open() fails
\* when none is free.
NumFds == 4
\* Distinct mount namespaces (inode numbers 1..NumNs).
NumNs == 2
\* Target pids 1..MaxPid.
MaxPid == 2
\* Lines of a /proc/<pid>/maps file read by bcc_procutils_each_module.
MaxLines == 3
\* Lines of a /proc/<pid>/maps file read by which_so_in_process.
MaxSoLines == 2
\* Calls of load_ld_cache in one run.
MaxLoads == 2
\* Segments of PATH.
MaxSegs == 2
\* Lines of /proc/kallsyms.
MaxKsyms == 3
\* Lines of a /proc/<pid>/maps file read by bcc_procutils_language.
MaxLangLines == 2
\* Streams a process may have open at a time.
MaxStreams == 2

VARIABLES
  curns,    \* inode of the mount namespace the calling thread is in
  fdtab,    \* the open descriptors: fd -> inode of the namespace file it names
  pidns,    \* /proc/<pid>/ns/mnt: pid -> inode of that process's namespace
  nc,       \* the caller's struct ns_cookie
  nslog,    \* what the last enter/exit call did (history, not program state)
  maps,     \* the lines of /proc/<pid>/maps, as the kernel wrote them
  modlog,   \* what the last bcc_procutils_each_module call did (history)
  lib_cache_count,  \* static int lib_cache_count
  lib_cache,        \* static struct ld_lib *lib_cache: its entries
  ldfile,   \* /etc/ld.so.cache
  ptrsize,  \* sizeof(void *) of the build: 4 or 8
  loads,    \* the calls of load_ld_cache made so far (history)
  ldfailed, \* whether a call of load_ld_cache has failed (history)
  solog,    \* what the last bcc_procutils_which_so call did (history)
  environ,  \* getenv("PATH")
  fs,       \* the files is_exe looks at: path -> what is there
  utillog,  \* what the last bcc_mapping_is_file_backed or bcc_procutils_which
            \* call returned (history)
  kallsyms, \* the lines of /proc/kallsyms, as the kernel wrote them
  ksymlog,  \* what the last bcc_procutils_each_ksym call did (history)
  exe,      \* what realpath("/proc/<pid>/exe") gives
  langlog,  \* what the last bcc_procutils_language call returned (history)
  streams,  \* the number of open stdio streams on maps files
  streamlog \* the last call that may open a stream, and the number of open
            \* streams before it (history)

nsvars == <<curns, fdtab, pidns, nc, nslog>>
modvars == <<maps, modlog>>
sovars == <<lib_cache_count, lib_cache, ldfile, ptrsize, loads, ldfailed, solog>>
utilvars == <<environ, fs, utillog>>
ksymvars == <<kallsyms, ksymlog>>
langvars == <<exe, langlog>>
resvars == <<streams, streamlog>>
vars == <<curns, fdtab, pidns, nc, nslog, maps, modlog, lib_cache_count, lib_cache,
          ldfile, ptrsize, loads, ldfailed, solog, environ, fs, utillog,
          kallsyms, ksymlog, exe, langlog, streams, streamlog>>

\* what the calls of one part leave alone: the variables of the other parts
restns == <<modvars, sovars, utilvars, ksymvars, langvars, resvars>>
restmod == <<nsvars, sovars, utilvars, ksymvars, langvars>>
restso == <<nsvars, utilvars, ksymvars, langvars>>
restutil == <<nsvars, modvars, sovars, ksymvars, langvars, resvars>>
restksym == <<nsvars, modvars, sovars, utilvars, langvars, resvars>>
restlang == <<nsvars, sovars, utilvars, ksymvars>>

(***************************************************************************)
(* Mount namespace guard: bcc_procutils_enter_mountns / exit_mountns.      *)
(***************************************************************************)
Fds == 0 .. (NumFds - 1)
Inodes == 1 .. NumNs
Pids == 1 .. MaxPid

\* int oldns = -1; the value of a descriptor variable that holds no descriptor
NoFd == -1

ns_cookie == [nsc_oldns : Fds \cup {NoFd}, nsc_newns : Fds \cup {NoFd}]

\* open(2): the lowest descriptor not in use
LowestFree(t) == CHOOSE f \in Fds \ DOMAIN t : \A g \in Fds \ DOMAIN t : f <= g

HasFree(t) == (Fds \ DOMAIN t) # {}

\* the descriptor table after open() returned fd for a file of inode ino
OpenFd(t, fd, ino) == [f \in (DOMAIN t) \cup {fd} |-> IF f = fd THEN ino ELSE t[f]]

\* the descriptor table after close(fd)
CloseFd(t, fd) == [f \in (DOMAIN t) \ {fd} |-> t[f]]

\* mutant: the inode comparison left out
SameNamespace_never(ons_ino, nns_ino) == FALSE

\* if (ons_stat.st_ino == nns_stat.st_ino) goto errout;
SameNamespace(ons_ino, nns_ino) == ons_ino = nns_ino

\* mutant: errout closes oldns only
ErroutClose_oldOnly(t, oldns, newns) == IF oldns > -1 THEN CloseFd(t, oldns) ELSE t

\* errout: close oldns and newns when each is > -1
ErroutClose(t, oldns, newns) ==
  LET t1 == IF oldns > -1 THEN CloseFd(t, oldns) ELSE t
  IN  IF newns > -1 THEN CloseFd(t1, newns) ELSE t1

\* The outcomes of the system calls of one enter call, as the kernel decides
\* them: each open, fstat and setns may fail. The calls are made one after
\* the other and the first that fails ends the call, so at most one fails.
EnterOutcomes ==
  {o \in [openOld : BOOLEAN, openNew : BOOLEAN, fstatOld : BOOLEAN,
          fstatNew : BOOLEAN, setns : BOOLEAN] :
     Cardinality({f \in DOMAIN o : ~o[f]}) <= 1}

NoPrev == [op |-> "none", ncNull |-> FALSE, nsBefore |-> 0, fdsBefore |-> <<>>,
           ret |-> FALSE, target |-> 0, entered |-> FALSE]

PrevOf(l) == [op |-> l.op, ncNull |-> l.ncNull, nsBefore |-> l.nsBefore,
              fdsBefore |-> l.fdsBefore, ret |-> l.ret, target |-> l.target,
              entered |-> l.entered]

\* One entry of the call history: the call, its result, the setns calls it
\* made, the descriptors it opened and closed, and the state it started from.
NsLog(op, ncNull, ret, setns, closed, opened, statOk, target, entered) ==
  [op |-> op, ncNull |-> ncNull, ret |-> ret, setns |-> setns, closed |-> closed,
   opened |-> opened, nsBefore |-> curns, fdsBefore |-> fdtab, ncBefore |-> nc,
   statOk |-> statOk, target |-> target, entered |-> entered,
   prev |-> PrevOf(nslog)]

\* bool bcc_procutils_enter_mountns(int pid, struct ns_cookie *nc)
bcc_procutils_enter_mountns(pid, ncNull, o) ==
  IF ncNull
  THEN /\ nslog' = NsLog("enter", TRUE, FALSE, 0, {}, {}, FALSE, pidns[pid], FALSE)
       /\ UNCHANGED <<curns, fdtab, pidns, nc>>
  ELSE
    LET oldOk  == o.openOld /\ HasFree(fdtab)
        oldns  == IF oldOk THEN LowestFree(fdtab) ELSE NoFd
        t1     == IF oldOk THEN OpenFd(fdtab, oldns, curns) ELSE fdtab
        newOk  == oldOk /\ o.openNew /\ HasFree(t1)
        newns  == IF newOk THEN LowestFree(t1) ELSE NoFd
        t2     == IF newOk THEN OpenFd(t1, newns, pidns[pid]) ELSE t1
        statOk == newOk /\ o.fstatOld /\ o.fstatNew
        same   == statOk /\ SameNamespace(t2[oldns], t2[newns])
        doSet  == statOk /\ ~same
        ok     == doSet /\ o.setns
        tEnd   == IF ok \/ ~oldOk THEN t2 ELSE ErroutClose(t2, oldns, newns)
    IN  /\ curns' = IF ok THEN t2[newns] ELSE curns
        /\ fdtab' = tEnd
        /\ nc' = IF ok THEN [nsc_oldns |-> oldns, nsc_newns |-> newns]
                       ELSE [nsc_oldns |-> NoFd, nsc_newns |-> NoFd]
        /\ nslog' = NsLog("enter", FALSE, ok, IF doSet THEN 1 ELSE 0,
                          (DOMAIN t2) \ (DOMAIN tEnd), (DOMAIN t2) \ (DOMAIN fdtab),
                          statOk, pidns[pid], FALSE)
        /\ UNCHANGED pidns

\* mutant: exit switches through the target's descriptor
ExitTargetFd_new(c) == c.nsc_newns

\* setns(nc->nsc_oldns, CLONE_NEWNS): the descriptor exit switches back through
ExitTargetFd(c) == c.nsc_oldns

\* close(nc->nsc_oldns) and close(nc->nsc_newns), each when > -1
ExitClose(t, c) ==
  LET t1 == IF c.nsc_oldns > -1 THEN CloseFd(t, c.nsc_oldns) ELSE t
  IN  IF c.nsc_newns > -1 THEN CloseFd(t1, c.nsc_newns) ELSE t1

\* mutant: exit leaves the cookie as it was
ExitCookie_kept(c) == c

\* nc->nsc_oldns = -1; nc->nsc_newns = -1; after the two close calls
ExitCookie(c) ==
  [nsc_oldns |-> IF c.nsc_oldns > -1 THEN NoFd ELSE c.nsc_oldns,
   nsc_newns |-> IF c.nsc_newns > -1 THEN NoFd ELSE c.nsc_newns]

\* bool bcc_procutils_exit_mountns(struct ns_cookie *nc)
bcc_procutils_exit_mountns(ncNull, setnsOk) ==
  IF ncNull \/ nc.nsc_oldns = -1 \/ nc.nsc_newns = -1
  THEN /\ nslog' = NsLog("exit", ncNull, FALSE, 0, {}, {}, FALSE, 0, FALSE)
       /\ UNCHANGED <<curns, fdtab, pidns, nc>>
  ELSE
    LET fd   == ExitTargetFd(nc)
        rc   == setnsOk /\ fd \in DOMAIN fdtab
        tEnd == ExitClose(fdtab, nc)
    IN  /\ curns' = IF rc THEN fdtab[fd] ELSE curns
        /\ fdtab' = tEnd
        /\ nc' = ExitCookie(nc)
        /\ nslog' = NsLog("exit", FALSE, rc, 1, (DOMAIN fdtab) \ (DOMAIN tEnd), {},
                          FALSE, 0, TRUE)
        /\ UNCHANGED pidns

\* the namespace guard before its first call
IdleNS ==
  /\ curns \in Inodes
  /\ pidns \in [Pids -> Inodes]
  /\ fdtab = <<>>
  /\ nc = [nsc_oldns |-> NoFd, nsc_newns |-> NoFd]
  /\ nslog = [op |-> "none", ncNull |-> FALSE, ret |-> FALSE, setns |-> 0,
              closed |-> {}, opened |-> {}, nsBefore |-> 0, fdsBefore |-> <<>>,
              ncBefore |-> [nsc_oldns |-> NoFd, nsc_newns |-> NoFd],
              statOk |-> FALSE, target |-> 0, entered |-> FALSE, prev |-> NoPrev]

EnterMountns ==
  /\ \E pid \in Pids, ncNull \in BOOLEAN, o \in EnterOutcomes :
       bcc_procutils_enter_mountns(pid, ncNull, o)
  /\ UNCHANGED restns

ExitMountns ==
  /\ \E ncNull \in BOOLEAN, setnsOk \in BOOLEAN :
       bcc_procutils_exit_mountns(ncNull, setnsOk)
  /\ UNCHANGED restns

(***************************************************************************)
(* Text of a /proc/<pid>/maps file and the stdio calls that read it.       *)
(* Strings are sequences of characters; Ch(s, i) is the i-th one.          *)
(***************************************************************************)
Ch(s, i) == SubSeq(s, i, i)

\* isspace() on the characters that occur in the files
IsSpace(c) == c \in {" ", "\n", "\t"}

DecDigits == {"0", "1", "2", "3", "4", "5", "6", "7", "8", "9"}

HexDigits == DecDigits \cup {"a", "b", "c", "d", "e", "f", "A", "B", "C", "D", "E", "F"}

\* whether c is a digit of the base (16 for %llx, 10 for %lld)
IsDigit(c, base) == IF base = 16 THEN c \in HexDigits ELSE c \in DecDigits

DigitVal(c) ==
  CASE c = "0" -> 0 [] c = "1" -> 1 [] c = "2" -> 2 [] c = "3" -> 3 [] c = "4" -> 4
    [] c = "5" -> 5 [] c = "6" -> 6 [] c = "7" -> 7 [] c = "8" -> 8 [] c = "9" -> 9
    [] c \in {"a", "A"} -> 10 [] c \in {"b", "B"} -> 11 [] c \in {"c", "C"} -> 12
    [] c \in {"d", "D"} -> 13 [] c \in {"e", "E"} -> 14 [] c \in {"f", "F"} -> 15

\* the value stdio's EOF stands for
EOF == -1

\* the first position at or after p that holds no white space
RECURSIVE SkipSpace(_, _)
SkipSpace(s, p) ==
  IF p <= Len(s) /\ IsSpace(Ch(s, p)) THEN SkipSpace(s, p + 1) ELSE p

\* the digits of a number from position p on: where they end, their value and
\* how many there are
RECURSIVE ScanDigits(_, _, _, _, _)
ScanDigits(s, p, base, val, n) ==
  IF p <= Len(s) /\ IsDigit(Ch(s, p), base)
  THEN ScanDigits(s, p + 1, base, val * base + DigitVal(Ch(s, p)), n + 1)
  ELSE [pos |-> p, val |-> val, n |-> n]

\* One %llx or %lld conversion of fscanf: white space (line ends included) is
\* skipped, then an optional sign and the longest run of digits are read. st is
\* "eof" at the end of the input, "nomatch" when no digit follows, else "ok".
ScanInt(s, p, base) ==
  LET q == SkipSpace(s, p)
  IN  IF q > Len(s)
      THEN [st |-> "eof", pos |-> q, val |-> 0]
      ELSE LET sign == Ch(s, q) \in {"-", "+"}
               d    == ScanDigits(s, IF sign THEN q + 1 ELSE q, base, 0, 0)
           IN  IF d.n = 0
               THEN [st |-> "nomatch", pos |-> d.pos, val |-> 0]
               ELSE [st |-> "ok", pos |-> d.pos,
                     val |-> IF Ch(s, q) = "-" THEN 0 - d.val ELSE d.val]

\* the first position at or after p that holds white space, or the end
RECURSIVE SkipWord(_, _)
SkipWord(s, p) ==
  IF p <= Len(s) /\ ~IsSpace(Ch(s, p)) THEN SkipWord(s, p + 1) ELSE p

\* One %s conversion of fscanf: white space is skipped, then the characters up
\* to the next white space are read.
ScanStr(s, p) ==
  LET q == SkipSpace(s, p)
  IN  IF q > Len(s)
      THEN [st |-> "eof", pos |-> q, val |-> ""]
      ELSE [st |-> "ok", pos |-> SkipWord(s, q), val |-> SubSeq(s, q, SkipWord(s, q) - 1)]

\* what fscanf returns having stopped after n conversions
ScanResult(n, pos, begin, end, perm) ==
  [ret |-> n, pos |-> pos, begin |-> begin, end |-> end, perm |-> perm]

\* fscanf(procmap, "%llx-%llx %s %llx %s %lld", &begin, &end, perm, &size, dev,
\* &inode) from position p: the number of fields converted (EOF when the input
\* ends before the first), the position reading stopped at, and the fields the
\* callers use. Each operator below is one directive of the format, given the
\* conversions made before it.
ScanInode(s, a, b, c, e) ==
  LET f == ScanInt(s, e.pos, 10)
  IN  ScanResult(IF f.st = "ok" THEN 6 ELSE 5, f.pos, a.val, b.val, c.val)

ScanDev(s, a, b, c, d) ==
  LET e == ScanStr(s, d.pos)
  IN  IF e.st = "ok"
      THEN ScanInode(s, a, b, c, e)
      ELSE ScanResult(4, e.pos, a.val, b.val, c.val)

ScanOffset(s, a, b, c) ==
  LET d == ScanInt(s, c.pos, 16)
  IN  IF d.st = "ok"
      THEN ScanDev(s, a, b, c, d)
      ELSE ScanResult(3, d.pos, a.val, b.val, c.val)

ScanPerm(s, a, b) ==
  LET c == ScanStr(s, b.pos)
  IN  IF c.st = "ok" THEN ScanOffset(s, a, b, c) ELSE ScanResult(2, c.pos, a.val, b.val, "")

ScanEnd(s, a) ==
  IF a.pos > Len(s) \/ Ch(s, a.pos) # "-"
  THEN ScanResult(1, a.pos, a.val, 0, "")
  ELSE LET b == ScanInt(s, a.pos + 1, 16)
       IN  IF b.st = "ok" THEN ScanPerm(s, a, b) ELSE ScanResult(1, b.pos, a.val, 0, "")

fscanf_maps(s, p) ==
  LET a == ScanInt(s, p, 16)
  IN  IF a.st = "ok"
      THEN ScanEnd(s, a)
      ELSE ScanResult(IF a.st = "eof" THEN EOF ELSE 0, a.pos, 0, 0, "")

\* the position of the first line end at or after p, or one past the end
RECURSIVE FindNewline(_, _)
FindNewline(s, p) ==
  IF p <= Len(s) /\ Ch(s, p) # "\n" THEN FindNewline(s, p + 1) ELSE p

\* fgets(endline, sizeof(endline), fp): the rest of the line, its line end
\* included; nothing (NULL) at the end of the input
fgets(s, p) ==
  IF p > Len(s)
  THEN [ok |-> FALSE, line |-> "", pos |-> p]
  ELSE LET nl == FindNewline(s, p)
       IN  IF nl > Len(s)
           THEN [ok |-> TRUE, line |-> SubSeq(s, p, Len(s)), pos |-> Len(s) + 1]
           ELSE [ok |-> TRUE, line |-> SubSeq(s, p, nl), pos |-> nl + 1]

\* newline[0] = '\0'; while (isspace(mapname[0])) mapname++;
MapName(line) ==
  LET nl  == FindNewline(line, 1)
      cut == SubSeq(line, 1, nl - 1)
  IN  SubSeq(cut, SkipSpace(cut, 1), Len(cut))

\* strncmp(s, pre, sizeof(pre) - 1) == 0
HasPrefix(s, pre) == Len(s) >= Len(pre) /\ SubSeq(s, 1, Len(pre)) = pre

\* strchr(s, c) != NULL
HasChar(s, c) == \E i \in 1 .. Len(s) : Ch(s, i) = c

\* mutant: the [heap] test left out
bcc_mapping_is_file_backed_heap(mapname) ==
  /\ mapname # ""
  /\ ~HasPrefix(mapname, "//anon")
  /\ ~HasPrefix(mapname, "/dev/zero")
  /\ ~HasPrefix(mapname, "/anon_hugepage")
  /\ ~HasPrefix(mapname, "[stack")
  /\ ~HasPrefix(mapname, "/SYSV")

\* mutant: the test for an empty name left out
bcc_mapping_is_file_backed_empty(mapname) ==
  /\ ~HasPrefix(mapname, "//anon")
  /\ ~HasPrefix(mapname, "/dev/zero")
  /\ ~HasPrefix(mapname, "/anon_hugepage")
  /\ ~HasPrefix(mapname, "[stack")
  /\ ~HasPrefix(mapname, "/SYSV")
  /\ ~HasPrefix(mapname, "[heap]")

\* int bcc_mapping_is_file_backed(const char *mapname)
bcc_mapping_is_file_backed(mapname) ==
  /\ mapname # ""
  /\ ~HasPrefix(mapname, "//anon")
  /\ ~HasPrefix(mapname, "/dev/zero")
  /\ ~HasPrefix(mapname, "/anon_hugepage")
  /\ ~HasPrefix(mapname, "[stack")
  /\ ~HasPrefix(mapname, "/SYSV")
  /\ ~HasPrefix(mapname, "[heap]")

(***************************************************************************)
(* The maps files of the model. A line is written from its fields as the   *)
(* kernel writes it; an incomplete line is a line cut after some of its    *)
(* leading fields; a junk line is one on which no leading field parses.    *)
(***************************************************************************)
MapFields(begin, end, perm, off, dev, inode, path) ==
  [begin |-> begin, end |-> end, perm |-> perm, off |-> off, dev |-> dev,
   inode |-> inode, path |-> path]

\* the mappings a file read by bcc_procutils_each_module may list; begin and
\* end are addresses, written to the file in hexadecimal
Mappings ==
  { MapFields(64, 65, "r-xp", "0", "8:2", "7", "/bin/foo"),
    MapFields(6, 7, "rwxp", "0", "0:0", "0", "[heap]"),
    MapFields(8, 9, "rw-p", "1", "8:2", "7", "/bin/foo"),
    MapFields(12, 13, "r-xp", "0", "0:0", "0", "") }

\* an address as the kernel prints it (%lx)
RECURSIVE ToHex(_)
ToHex(n) ==
  IF n < 16
  THEN Ch("0123456789abcdef", n + 1)
  ELSE ToHex(n \div 16) \o Ch("0123456789abcdef", (n % 16) + 1)

\* the leading fields an incomplete line may stop after
Cuts == {3, 5}

\* the well-formed lines of the mappings ms
OkLines(ms) == [kind : {"ok"}, f : ms, cut : {6}]

\* the lines that do not parse into six leading fields
BadLines ==
  [kind : {"cut"}, f : {MapFields(4, 5, "r-xp", "0", "8:2", "7", "/bin/foo")},
   cut : Cuts]
    \cup [kind : {"junk"}, f : {MapFields(0, 0, "", "", "", "", "[vsyscall]")},
          cut : {0}]

MapLines == OkLines(Mappings) \cup BadLines

\* the address range of a line
RangeText(f) == ToHex(f.begin) \o "-" \o ToHex(f.end)

\* the text of one line
LineText(l) ==
  CASE l.kind = "ok" ->
         RangeText(l.f) \o " " \o l.f.perm \o " " \o l.f.off \o " " \o l.f.dev
           \o " " \o l.f.inode \o " " \o l.f.path \o "\n"
    [] l.kind = "junk" -> l.f.path \o "\n"
    [] l.cut = 3 -> RangeText(l.f) \o " " \o l.f.perm \o "\n"
    [] OTHER -> RangeText(l.f) \o " " \o l.f.perm \o " " \o l.f.off \o " "
                  \o l.f.dev \o "\n"

\* the text of the whole file
RECURSIVE MapsText(_)
MapsText(ls) == IF ls = <<>> THEN "" ELSE LineText(Head(ls)) \o MapsText(Tail(ls))

\* the files of at most n lines, each a line of ls
RECURSIVE MapsFiles(_, _)
MapsFiles(ls, n) ==
  IF n = 0 THEN {<<>>}
  ELSE LET shorter == MapsFiles(ls, n - 1)
       IN  shorter \cup {Append(m, l) : m \in {x \in shorter : Len(x) = n - 1},
                                        l \in ls}

(***************************************************************************)
(* bcc_procutils_each_module                                               *)
(***************************************************************************)
\* bcc_perf_map_path(map_path, sizeof(map_path), pid): the perf-map path of
\* the process, a fixed temp-directory path keyed by pid
bcc_perf_map_path(pid) == "/tmp/perf-" \o ToString(pid) \o ".map"

\* callback(map_path, 0, -1, payload): -1 converted to uint64_t is the largest
\* 64-bit value; addresses are kept as the signed numbers of the same bits
PerfMapEnd == -1

Visit(name, begin, end) == [name |-> name, begin |-> begin, end |-> end]

\* mutant: the permission test left out
IsExecutable_any(perm) == TRUE

\* strchr(perm, 'x')
IsExecutable(perm) == HasChar(perm, "x")

\* mutant: the scan goes on after a negative status
StopOnNegative_never(status) == FALSE

\* if (callback(...) < 0) break;
StopOnNegative(status) == status < 0

\* mutant: the scan goes on whatever fscanf returned
ScanContinues_always(ret) == TRUE

\* } while (ret && ret != EOF);
ScanContinues(ret) == ret # 0 /\ ret # EOF

\* The do-while loop of bcc_procutils_each_module from position p of the text:
\* the visitor calls made so far are visits, and the visitor returns a negative
\* status on its call number stopAt (never when stopAt is 0).
RECURSIVE ScanModules(_, _, _, _)

\* the callback and the loop condition, for a line whose six fields parsed
\* into r and whose rest is mapname
ScanVisit(s, r, next, mapname, visits, stopAt) ==
  IF IsExecutable(r.perm) /\ bcc_mapping_is_file_backed(mapname)
  THEN IF StopOnNegative(IF Len(visits) + 1 = stopAt THEN -1 ELSE 0)
       THEN Append(visits, Visit(mapname, r.begin, r.end))
       ELSE ScanModules(s, next, Append(visits, Visit(mapname, r.begin, r.end)),
                        stopAt)
  ELSE ScanModules(s, next, visits, stopAt)

\* one pass of the loop body after fscanf returned r and fgets returned g
ScanLine(s, r, g, visits, stopAt) ==
  IF ~g.ok
  THEN visits
  ELSE IF r.ret = 6
  THEN ScanVisit(s, r, g.pos, MapName(g.line), visits, stopAt)
  ELSE IF ScanContinues(r.ret)
  THEN ScanModules(s, g.pos, visits, stopAt)
  ELSE visits

ScanRest(s, r, visits, stopAt) == ScanLine(s, r, fgets(s, r.pos), visits, stopAt)

ScanModules(s, p, visits, stopAt) == ScanRest(s, fscanf_maps(s, p), visits, stopAt)

\* the open streams after a call that opened one (fopen), or not, and closed
\* it (fclose), or not
StreamsAfter(opened, closed) ==
  streams + (IF opened THEN 1 ELSE 0) - (IF closed THEN 1 ELSE 0)

\* int bcc_procutils_each_module(int pid, bcc_procutils_modulecb callback,
\*                               void *payload)
bcc_procutils_each_module(pid, fopenOk, stopAt) ==
  IF ~fopenOk
  THEN /\ modlog' = [op |-> "each_module", pid |-> pid, ret |-> -1, visits |-> <<>>,
                     stopped |-> FALSE, opened |-> FALSE]
       /\ streams' = streams
  ELSE LET v == ScanModules(MapsText(maps), 1, <<>>, stopAt)
       IN  /\ modlog' = [op |-> "each_module", pid |-> pid, ret |-> 0,
                         visits |-> Append(v, Visit(bcc_perf_map_path(pid), 0,
                                                    PerfMapEnd)),
                         stopped |-> (stopAt > 0 /\ Len(v) = stopAt), opened |-> TRUE]
           /\ streams' = StreamsAfter(TRUE, TRUE)

\* no maps file read yet
IdleMod ==
  /\ maps = <<>>
  /\ modlog = [op |-> "none", pid |-> 0, ret |-> 0, visits |-> <<>>,
               stopped |-> FALSE, opened |-> FALSE]

EachModule ==
  /\ \E pid \in Pids, fopenOk \in BOOLEAN, stopAt \in 0 .. MaxLines :
       /\ fopenOk => streams < MaxStreams
       /\ bcc_procutils_each_module(pid, fopenOk, stopAt)
  /\ streamlog' = [op |-> "each_module", before |-> streams]
  /\ UNCHANGED <<maps, restmod>>

(***************************************************************************)
(* The ld.so cache file. A file is its size and what its bytes hold: the   *)
(* header strings (magic), the 32-bit fields (u32) and the NUL-terminated  *)
(* strings (str), each with the offset it starts at.                       *)
(***************************************************************************)
CACHE1_HEADER == "ld.so-1.7.0"

CACHE2_HEADER == "glibc-ld.so.cache"

\* sizeof(struct ld_cache1): header[11], one byte of padding, entry_count
SizeofCache1 == 16
\* offsetof(struct ld_cache1, entry_count)
Cache1CountOff == 12
\* sizeof(struct ld_cache1_entry): flags, key, value
SizeofEntry1 == 12
\* sizeof(struct ld_cache2): header[17], version[3], entry_count,
\* string_table_len, pad_[5]
SizeofCache2 == 48
\* offsetof(struct ld_cache2, entry_count)
Cache2CountOff == 20
\* sizeof(struct ld_cache2_entry): flags, key, value, pad1_, pad2_
SizeofEntry2 == 24
\* offsetof(key) and offsetof(value) in both entry structures
KeyOff == 4
ValueOff == 8

\* memcmp(ld_map + off, m, strlen(m)) == 0
HasMagic(f, off, m) == <<off, m>> \in f.magic

\* the 32-bit field at off; bytes no field was written to read as 0
U32At(f, off) ==
  IF \E c \in f.u32 : c[1] = off THEN (CHOOSE c \in f.u32 : c[1] = off)[2] ELSE 0

\* the string that starts at off
StrAt(f, off) ==
  IF \E c \in f.str : c[1] = off THEN (CHOOSE c \in f.str : c[1] = off)[2] ELSE ""

\* (len + 0x7) & ~0x7ULL
Align8(n) == ((n + 7) \div 8) * 8

LdEntry(name, path, flags) == [libname |-> name, path |-> path, flags |-> flags]

\* the offset, from the start of the strings, of the name of entry i when the
\* strings of the entries follow each other, name then path
RECURSIVE StrOff(_, _)
StrOff(es, i) ==
  IF i = 1 THEN 0
  ELSE StrOff(es, i - 1) + Len(es[i - 1].libname) + 1 + Len(es[i - 1].path) + 1

\* the length of the strings of all the entries
StrLen(es) == StrOff(es, Len(es) + 1)

\* A version 2 table written at offset base, its strings right after its
\* entries, key and value counted from keyBase.
Cache2U32(base, keyBase, es) ==
  LET strs == base + SizeofCache2 + SizeofEntry2 * Len(es)
      at(i) == base + SizeofCache2 + SizeofEntry2 * (i - 1)
  IN  {<<base + Cache2CountOff, Len(es)>>}
        \cup {<<at(i), es[i].flags>> : i \in 1 .. Len(es)}
        \cup {<<at(i) + KeyOff, strs + StrOff(es, i) - keyBase>> : i \in 1 .. Len(es)}
        \cup {<<at(i) + ValueOff,
                strs + StrOff(es, i) + Len(es[i].libname) + 1 - keyBase>> :
                i \in 1 .. Len(es)}

Cache2Str(base, es) ==
  LET strs == base + SizeofCache2 + SizeofEntry2 * Len(es)
  IN  {<<strs + StrOff(es, i), es[i].libname>> : i \in 1 .. Len(es)}
        \cup {<<strs + StrOff(es, i) + Len(es[i].libname) + 1, es[i].path>> :
                i \in 1 .. Len(es)}

\* a version 1 table at offset 0: key and value count from the end of the
\* entries
Cache1U32(es) ==
  LET at(i) == SizeofCache1 + SizeofEntry1 * (i - 1)
  IN  {<<Cache1CountOff, Len(es)>>}
        \cup {<<at(i), es[i].flags>> : i \in 1 .. Len(es)}
        \cup {<<at(i) + KeyOff, StrOff(es, i)>> : i \in 1 .. Len(es)}
        \cup {<<at(i) + ValueOff, StrOff(es, i) + Len(es[i].libname) + 1>> :
                i \in 1 .. Len(es)}

Cache1Str(es) ==
  LET strs == SizeofCache1 + SizeofEntry1 * Len(es)
  IN  {<<strs + StrOff(es, i), es[i].libname>> : i \in 1 .. Len(es)}
        \cup {<<strs + StrOff(es, i) + Len(es[i].libname) + 1, es[i].path>> :
                i \in 1 .. Len(es)}

LdFile(fails, size, magic, u32, str) ==
  [fails |-> fails, size |-> size, magic |-> magic, u32 |-> u32, str |-> str]

\* a cache file in the new format alone
V2File(es) ==
  LdFile("none", SizeofCache2 + SizeofEntry2 * Len(es) + StrLen(es),
         {<<0, CACHE2_HEADER>>}, Cache2U32(0, 0, es), Cache2Str(0, es))

\* a cache file in the old format alone
V1File(es) ==
  LdFile("none", SizeofCache1 + SizeofEntry1 * Len(es) + StrLen(es),
         {<<0, CACHE1_HEADER>>}, Cache1U32(es), Cache1Str(es))

\* a cache file in the old format with n entries (their strings left out),
\* followed by the new format table, as ldconfig writes both
V1V2File(n, es) ==
  LET base == Align8(SizeofCache1 + SizeofEntry1 * n)
  IN  LdFile("none", base + SizeofCache2 + SizeofEntry2 * Len(es) + StrLen(es),
             {<<0, CACHE1_HEADER>>, <<base, CACHE2_HEADER>>},
             {<<Cache1CountOff, n>>} \cup Cache2U32(base, base, es),
             Cache2Str(base, es))

(***************************************************************************)
(* read_cache1, read_cache2, load_ld_cache                                 *)
(***************************************************************************)
\* what a load leaves: its return value, lib_cache_count and lib_cache
Loaded(ret, count, cache) == [ret |-> ret, count |-> count, cache |-> cache]

\* static int read_cache1(const char *ld_map)
read_cache1(f) ==
  Loaded(0, U32At(f, Cache1CountOff),
         [i \in 1 .. U32At(f, Cache1CountOff) |->
            LdEntry(StrAt(f, SizeofCache1 + SizeofEntry1 * U32At(f, Cache1CountOff)
                             + U32At(f, SizeofCache1 + SizeofEntry1 * (i - 1) + KeyOff)),
                    StrAt(f, SizeofCache1 + SizeofEntry1 * U32At(f, Cache1CountOff)
                             + U32At(f, SizeofCache1 + SizeofEntry1 * (i - 1) + ValueOff)),
                    U32At(f, SizeofCache1 + SizeofEntry1 * (i - 1)))])

\* mutant: key and value count from the start of the file
Cache2StringBase_file(base) == 0

\* ld_map + ldcache->entries[i].key in read_cache2: key and value count from
\* the pointer read_cache2 was given, which is the mapping plus base
Cache2StringBase(base) == base

\* mutant: the name is taken from value and the path from key
read_cache2_swapped(f, base, count, cache) ==
  IF ~HasMagic(f, base, CACHE2_HEADER)
  THEN Loaded(-1, count, cache)
  ELSE Loaded(0, U32At(f, base + Cache2CountOff),
              [i \in 1 .. U32At(f, base + Cache2CountOff) |->
                 LdEntry(StrAt(f, base + U32At(f, base + SizeofCache2
                                                    + SizeofEntry2 * (i - 1) + ValueOff)),
                         StrAt(f, base + U32At(f, base + SizeofCache2
                                                    + SizeofEntry2 * (i - 1) + KeyOff)),
                         U32At(f, base + SizeofCache2 + SizeofEntry2 * (i - 1)))])

\* static int read_cache2(const char *ld_map), ld_map being the mapping plus base
read_cache2(f, base, count, cache) ==
  IF ~HasMagic(f, base, CACHE2_HEADER)
  THEN Loaded(-1, count, cache)
  ELSE Loaded(0, U32At(f, base + Cache2CountOff),
              [i \in 1 .. U32At(f, base + Cache2CountOff) |->
                 LdEntry(StrAt(f, Cache2StringBase(base)
                                    + U32At(f, base + SizeofCache2
                                                 + SizeofEntry2 * (i - 1) + KeyOff)),
                         StrAt(f, Cache2StringBase(base)
                                    + U32At(f, base + SizeofCache2
                                                 + SizeofEntry2 * (i - 1) + ValueOff)),
                         U32At(f, base + SizeofCache2 + SizeofEntry2 * (i - 1)))])

\* cache1_len: the old format header and entries, 8-byte aligned
Cache1Len(f) == Align8(SizeofCache1 + U32At(f, Cache1CountOff) * SizeofEntry1)

\* static int load_ld_cache(const char *cache_path), with lib_cache_count and
\* lib_cache being count and cache when it is called
load_ld_cache(f, count, cache) ==
  IF f.fails = "open" THEN Loaded(-1, count, cache)
  ELSE IF f.fails = "fstat" \/ f.size < SizeofCache1 THEN Loaded(-1, count, cache)
  ELSE IF f.fails = "mmap" THEN Loaded(-1, count, cache)
  ELSE IF HasMagic(f, 0, CACHE1_HEADER)
  THEN IF f.size > Cache1Len(f) + SizeofCache2
       THEN read_cache2(f, Cache1Len(f), count, cache)
       ELSE read_cache1(f)
  ELSE read_cache2(f, 0, count, cache)

\* The bytes a load dereferences, as ranges <<first, last>> of offsets into
\* the mapping; of a string passed to strdup, the byte it starts at. The file
\* is shorter than a page: a byte of the page after the end of the file reads
\* as 0, which is what U32At and StrAt give for it.
ReadRange(off, len) == <<off, off + len - 1>>

\* the entries and strings read_cache1 reads
read_cache1_reads(f) ==
  {ReadRange(Cache1CountOff, 4)}
    \cup {ReadRange(SizeofCache1 + SizeofEntry1 * (i - 1), SizeofEntry1) :
            i \in 1 .. U32At(f, Cache1CountOff)}
    \cup {ReadRange(SizeofCache1 + SizeofEntry1 * U32At(f, Cache1CountOff)
                      + U32At(f, SizeofCache1 + SizeofEntry1 * (i - 1) + KeyOff), 1) :
            i \in 1 .. U32At(f, Cache1CountOff)}
    \cup {ReadRange(SizeofCache1 + SizeofEntry1 * U32At(f, Cache1CountOff)
                      + U32At(f, SizeofCache1 + SizeofEntry1 * (i - 1) + ValueOff), 1) :
            i \in 1 .. U32At(f, Cache1CountOff)}

\* the header, entries and strings read_cache2 reads; of an entry the fields
\* flags, key and value
read_cache2_reads(f, base) ==
  {ReadRange(base, Len(CACHE2_HEADER))} \cup
  IF ~HasMagic(f, base, CACHE2_HEADER) THEN {}
  ELSE {ReadRange(base + Cache2CountOff, 4)}
         \cup {ReadRange(base + SizeofCache2 + SizeofEntry2 * (i - 1), SizeofEntry1) :
                 i \in 1 .. U32At(f, base + Cache2CountOff)}
         \cup {ReadRange(Cache2StringBase(base)
                           + U32At(f, base + SizeofCache2 + SizeofEntry2 * (i - 1)
                                        + KeyOff), 1) :
                 i \in 1 .. U32At(f, base + Cache2CountOff)}
         \cup {ReadRange(Cache2StringBase(base)
                           + U32At(f, base + SizeofCache2 + SizeofEntry2 * (i - 1)
                                        + ValueOff), 1) :
                 i \in 1 .. U32At(f, base + Cache2CountOff)}

\* what load_ld_cache reads of the mapping
load_ld_cache_reads(f) ==
  IF f.fails # "none" \/ f.size < SizeofCache1 THEN {}
  ELSE {ReadRange(0, Len(CACHE1_HEADER))} \cup
       IF HasMagic(f, 0, CACHE1_HEADER)
       THEN {ReadRange(Cache1CountOff, 4)} \cup
            IF f.size > Cache1Len(f) + SizeofCache2
            THEN read_cache2_reads(f, Cache1Len(f))
            ELSE read_cache1_reads(f)
       ELSE read_cache2_reads(f, 0)

\* the descriptor and the mapping of a call of load_ld_cache: whether open
\* and mmap gave one, and whether close and munmap were called on it
LdRes(opened, closed, mapped, unmapped) ==
  [opened |-> opened, closed |-> closed, mapped |-> mapped, unmapped |-> unmapped]

load_ld_cache_res(f) ==
  IF f.fails = "open" THEN LdRes(FALSE, FALSE, FALSE, FALSE)
  ELSE IF f.fails = "fstat" \/ f.size < SizeofCache1
  THEN LdRes(TRUE, TRUE, FALSE, FALSE)
  ELSE IF f.fails = "mmap" THEN LdRes(TRUE, TRUE, FALSE, FALSE)
  ELSE LdRes(TRUE, TRUE, TRUE, TRUE)

(***************************************************************************)
(* match_so_flags, which_so_in_process, bcc_procutils_which_so             *)
(***************************************************************************)
FLAG_TYPE_MASK == 255
TYPE_ELF_LIBC6 == 3
ABI_SPARC_LIB64 == 256
ABI_IA64_LIB64 == 512
ABI_X8664_LIB64 == 768
ABI_S390_LIB64 == 1024
ABI_POWERPC_LIB64 == 1280

\* flags & FLAG_ABI_MASK, for flags that are not negative
AbiBits(flags) == ((flags \div 256) % 256) * 256

\* mutant: the ABI tag is not looked at
match_so_flags_type(flags, ptr) == flags % (FLAG_TYPE_MASK + 1) = TYPE_ELF_LIBC6

\* static bool match_so_flags(int flags), sizeof(void *) being ptr
match_so_flags(flags, ptr) ==
  IF flags % (FLAG_TYPE_MASK + 1) # TYPE_ELF_LIBC6
  THEN FALSE
  ELSE IF AbiBits(flags) \in {ABI_SPARC_LIB64, ABI_IA64_LIB64, ABI_X8664_LIB64,
                              ABI_S390_LIB64, ABI_POWERPC_LIB64}
  THEN ptr = 8
  ELSE ptr = 4

\* strstr(s, t) != NULL
Contains(s, t) ==
  \E i \in 1 .. (Len(s) - Len(t) + 1) : SubSeq(s, i, i + Len(t) - 1) = t

\* mutant: only the "/lib<name>." pattern is looked for
SoMatches_dot(mapname, libname) ==
  Contains(mapname, ".so") /\ Contains(mapname, "/lib" \o libname \o ".")

\* strstr(mapname, ".so") && (strstr(mapname, search1) ||
\*                            strstr(mapname, search2))
SoMatches(mapname, libname) ==
  /\ Contains(mapname, ".so")
  /\ \/ Contains(mapname, "/lib" \o libname \o ".")
     \/ Contains(mapname, "/lib" \o libname \o "-")

\* a library path, or NULL
Path(p) == [ok |-> TRUE, path |-> p]

NULL == [ok |-> FALSE, path |-> ""]

\* fscanf(fp, "%*x-%*x %*s %*x %*s %*d"): the same input is read as by
\* fscanf_maps; nothing is assigned, so the result is 0, or EOF at the end
fscanf_skip(s, p) ==
  [ret |-> IF fscanf_maps(s, p).ret = EOF THEN EOF ELSE 0, pos |-> fscanf_maps(s, p).pos]

\* the do-while loop of which_so_in_process from position p of the text
RECURSIVE ScanSo(_, _, _)

ScanSoLine(s, r, g, libname) ==
  IF ~g.ok THEN NULL
  ELSE IF SoMatches(MapName(g.line), libname) THEN Path(MapName(g.line))
  ELSE IF r.ret # EOF THEN ScanSo(s, g.pos, libname)
  ELSE NULL

ScanSoRest(s, r, libname) == ScanSoLine(s, r, fgets(s, r.pos), libname)

ScanSo(s, p, libname) == ScanSoRest(s, fscanf_skip(s, p), libname)

\* static bool which_so_in_process(const char* libname, int pid, char* libpath)
which_so_in_process(libname, fopenOk) ==
  IF ~fopenOk THEN NULL ELSE ScanSo(MapsText(maps), 1, libname)

\* the for loop of bcc_procutils_which_so over lib_cache, from entry i
RECURSIVE FindSo(_, _, _, _, _)
FindSo(cache, count, i, soname, ptr) ==
  IF i > count THEN NULL
  ELSE IF HasPrefix(cache[i].libname, soname) /\ match_so_flags(cache[i].flags, ptr)
  THEN Path(cache[i].path)
  ELSE FindSo(cache, count, i + 1, soname, ptr)

\* mutant: a failed load is not recorded
MarkLoadFailed_not(count) == count

\* lib_cache_count = -1; after load_ld_cache returned a negative value
MarkLoadFailed(count) == -1

\* if (!lib_cache_count && load_ld_cache(LD_SO_CACHE) < 0): the load is tried
\* when lib_cache_count is 0
NeedsLoad(count) == count = 0

\* the ld cache part of bcc_procutils_which_so (from "if (lib_cache_count <
\* 0)"), l being what load_ld_cache leaves when it is called
WhichSoCache(libname, l) ==
  IF lib_cache_count < 0
  THEN [result |-> NULL, count |-> lib_cache_count, cache |-> lib_cache,
        loaded |-> FALSE, failed |-> FALSE]
  ELSE IF NeedsLoad(lib_cache_count)
  THEN IF l.ret < 0
       THEN [result |-> NULL, count |-> MarkLoadFailed(l.count), cache |-> l.cache,
             loaded |-> TRUE, failed |-> TRUE]
       ELSE [result |-> FindSo(l.cache, l.count, 1, "lib" \o libname \o ".so", ptrsize),
             count |-> l.count, cache |-> l.cache, loaded |-> TRUE, failed |-> FALSE]
  ELSE [result |-> FindSo(lib_cache, lib_cache_count, 1, "lib" \o libname \o ".so",
                          ptrsize),
        count |-> lib_cache_count, cache |-> lib_cache, loaded |-> FALSE,
        failed |-> FALSE]

\* one entry of the call history of bcc_procutils_which_so
SoLog(libname, pid, fopenOk, tier, result, mapsRead, loaded) ==
  [op |-> "which_so", libname |-> libname, pid |-> pid, fopenOk |-> fopenOk,
   tier |-> tier, result |-> result, mapsRead |-> mapsRead, loaded |-> loaded,
   countBefore |-> lib_cache_count, cacheBefore |-> lib_cache,
   failedBefore |-> ldfailed]

\* the third tier, c being what WhichSoCache computed
WhichSoTier3(libname, pid, fopenOk, c) ==
  /\ c.loaded => loads < MaxLoads
  /\ lib_cache_count' = c.count
  /\ lib_cache' = c.cache
  /\ loads' = IF c.loaded THEN loads + 1 ELSE loads
  /\ ldfailed' = (ldfailed \/ c.failed)
  /\ solog' = SoLog(libname, pid, fopenOk, 3, c.result, pid # 0, c.loaded)

\* the second tier, found being what which_so_in_process returned
WhichSoTier2(libname, pid, fopenOk, found) ==
  IF found.ok
  THEN /\ solog' = SoLog(libname, pid, fopenOk, 2, found, TRUE, FALSE)
       /\ UNCHANGED <<lib_cache_count, lib_cache, loads, ldfailed>>
  ELSE WhichSoTier3(libname, pid, fopenOk,
                    WhichSoCache(libname, load_ld_cache(ldfile, lib_cache_count,
                                                        lib_cache)))

\* char *bcc_procutils_which_so(const char *libname, int pid)
bcc_procutils_which_so(libname, pid, fopenOk) ==
  IF HasChar(libname, "/")
  THEN /\ solog' = SoLog(libname, pid, fopenOk, 1, Path(libname), FALSE, FALSE)
       /\ UNCHANGED <<lib_cache_count, lib_cache, loads, ldfailed>>
  ELSE IF pid # 0
  THEN WhichSoTier2(libname, pid, fopenOk, which_so_in_process(libname, fopenOk))
  ELSE WhichSoTier3(libname, pid, fopenOk,
                    WhichSoCache(libname, load_ld_cache(ldfile, lib_cache_count,
                                                        lib_cache)))

\* the mappings a file read by which_so_in_process may list
SoMappings ==
  { MapFields(10, 11, "r-xp", "0", "8:2", "9", "/lib/libz.so.1"),
    MapFields(12, 13, "r--p", "0", "8:2", "8", "/opt/libz-1.2.so"),
    MapFields(14, 15, "r--p", "0", "8:2", "6", "/lib/libz.a") }

\* flags of a libc6 library for x86-64 and of one with no ABI tag
FlagsX8664 == 771
FlagsUntagged == 3
\* flags of a libc5 library with the x86-64 tag, and of a libc6 library with
\* a tag that is none of the five (0x0a00)
FlagsLibc5 == 769
FlagsOtherAbi == 2563

\* a table in which the first entry for libz is not the first that matches
MixedEntries ==
  <<LdEntry("libz.so.1", "/a/libz.so.1", FlagsLibc5),
    LdEntry("libzz.so", "/b/libzz.so", FlagsX8664),
    LdEntry("libz.so.1", "/c/libz.so.1", FlagsOtherAbi),
    LdEntry("libz.so.1", "/d/libz.so.1", FlagsX8664)>>

\* the entry lists of the files in the old format alone: the strings of the
\* first take 29 bytes, those of the second 58
PureV1Lists ==
  { <<LdEntry("libz.so.1", "/usr/lib/libz.so.1", FlagsUntagged)>>,
    <<LdEntry("libz.so.1", "/usr/lib/libz.so.1", FlagsUntagged),
      LdEntry("libq.so.2", "/usr/lib/libq.so.2", FlagsUntagged)>> }

\* the entry lists of the new format tables that follow an old format part
EmbeddedLists == { <<LdEntry("libq.so", "/usr/lib64/libq.so", FlagsX8664)>> }

\* the entry lists of the files in the new format alone
V2Lists ==
  { <<>>,
    <<LdEntry("libz.so.1", "/usr/lib64/libz.so.1", FlagsX8664),
      LdEntry("libz.so.1", "/usr/lib/libz.so.1", FlagsUntagged)>>,
    MixedEntries }

\* a file in the new format alone whose one entry has a key that is the size
\* of the file: the name starts at the first byte after the file
OverrunFile ==
  LET path == "/usr/lib64/libq.so"
      size == SizeofCache2 + SizeofEntry2 + Len(path) + 1
  IN  LdFile("none", size, {<<0, CACHE2_HEADER>>},
             { <<Cache2CountOff, 1>>,
               <<SizeofCache2, FlagsX8664>>,
               <<SizeofCache2 + KeyOff, size>>,
               <<SizeofCache2 + ValueOff, SizeofCache2 + SizeofEntry2>> },
             {<<SizeofCache2 + SizeofEntry2, path>>})

\* the cache files of the model
LdFiles ==
  {V2File(es) : es \in V2Lists} \cup
  { LdFile("none", 64, {}, {}, {}),
    LdFile("none", 8, {<<0, CACHE2_HEADER>>}, {}, {}),
    LdFile("none", 64, {<<0, "ld.so-1.6.9">>}, {}, {}),
    LdFile("open", 0, {}, {}, {}),
    [V2File(<<LdEntry("libz.so.1", "/usr/lib64/libz.so.1", FlagsX8664)>>)
       EXCEPT !.fails = "mmap"] }
    \cup {V1File(es) : es \in PureV1Lists}
    \cup {V1V2File(1, es) : es \in EmbeddedLists}
    \cup {OverrunFile}

\* the library names asked for
LibNames == {"z", "q", "./libz.so"}

\* no library looked up yet: the statics of bcc_proc.c are zero
IdleSO ==
  /\ lib_cache_count = 0
  /\ lib_cache = <<>>
  /\ ldfile = V2File(<<>>)
  /\ ptrsize = 8
  /\ loads = 0
  /\ ldfailed = FALSE
  /\ solog = [op |-> "none", libname |-> "", pid |-> 0, fopenOk |-> FALSE,
              tier |-> 0, result |-> NULL, mapsRead |-> FALSE, loaded |-> FALSE,
              countBefore |-> 0, cacheBefore |-> <<>>, failedBefore |-> FALSE]

WhichSo ==
  /\ \E libname \in LibNames, pid \in {0} \cup Pids, fopenOk \in BOOLEAN :
       /\ fopenOk => streams < MaxStreams
       /\ bcc_procutils_which_so(libname, pid, fopenOk)
       /\ streams' = IF ~HasChar(libname, "/") /\ pid # 0
                     THEN StreamsAfter(fopenOk, fopenOk)
                     ELSE streams
  /\ streamlog' = [op |-> "which_so", before |-> streams]
  /\ UNCHANGED <<ldfile, ptrsize, maps, modlog, restso>>

(***************************************************************************)
(* bcc_mapping_is_file_backed and bcc_procutils_which applied to names.    *)
(***************************************************************************)
\* the initial segments of s, s itself and the empty string included
Prefixes(s) == {SubSeq(s, 1, n) : n \in 0 .. Len(s)}

\* the pathnames bcc_mapping_is_file_backed is applied to: what is left of the
\* six prefixes when they are cut short, and names that go on after them
PathNames ==
  UNION {Prefixes(pre \o "2") :
           pre \in {"//anon", "/dev/zero", "/anon_hugepage", "[stack", "/SYSV", "[heap]"}}
    \cup {"/bin/foo", "[vdso]", "a//anon", " [heap]", "[stack:12]", "/lib/libz.so.1"}

\* the files is_exe may be asked about, and what each can be: an executable
\* regular file, a regular file without execute permission, a directory, or
\* nothing
FsPaths == {"/bin/ls", "/opt/ls", "./ls"}

FsKinds == {"exe", "plain", "dir", "absent"}

\* the directories PATH may list; "" is an empty segment
PathDirs == {"", "/bin", "/opt"}

\* the sequences over S of length 1 .. n
RECURSIVE SeqsUpTo(_, _)
SeqsUpTo(S, n) ==
  IF n = 0 THEN {}
  ELSE {<<x>> : x \in S}
         \cup {Append(q, x) : q \in SeqsUpTo(S, n - 1), x \in S}

\* the value of PATH written from its segments
RECURSIVE JoinPath(_)
JoinPath(segs) ==
  IF Len(segs) = 1 THEN segs[1]
  ELSE segs[1] \o ":" \o JoinPath(Tail(segs))

\* getenv("PATH"): not set, or the text of its segments
Unset == [set |-> FALSE, segs |-> <<>>, text |-> ""]

Environs(n) == {Unset} \cup {[set |-> TRUE, segs |-> q, text |-> JoinPath(q)] :
                               q \in SeqsUpTo(PathDirs, n)}

\* mutant: S_ISREG is not tested
is_exe_anyfile(path) == path \in DOMAIN fs /\ fs[path] \in {"exe", "dir"}

\* static bool is_exe(const char *path): access(path, X_OK) fails on what is
\* not there and on a file without execute permission, S_ISREG on a directory
is_exe(path) ==
  IF path \notin DOMAIN fs \/ fs[path] \in {"absent", "plain"} THEN FALSE
  ELSE fs[path] = "exe"

\* strchr(PATH, ':') ?: strchr(PATH, '\0'), from position p of the text
RECURSIVE NextColon(_, _)
NextColon(s, p) ==
  IF p > Len(s) \/ Ch(s, p) = ":" THEN p ELSE NextColon(s, p + 1)

\* if (path_len)
SegmentTried(path_len) == path_len # 0

\* the while loop of bcc_procutils_which from position p of PATH
RECURSIVE WhichScan(_, _, _)

WhichSegment(s, p, next, binpath) ==
  IF SegmentTried(next - p) /\ is_exe(SubSeq(s, p, next - 1) \o "/" \o binpath)
  THEN Path(SubSeq(s, p, next - 1) \o "/" \o binpath)
  ELSE IF next <= Len(s) THEN WhichScan(s, next + 1, binpath)
  ELSE NULL

WhichScan(s, p, binpath) == WhichSegment(s, p, NextColon(s, p), binpath)

\* char *bcc_procutils_which(const char *binpath)
bcc_procutils_which(binpath) ==
  IF HasChar(binpath, "/")
  THEN IF is_exe(binpath) THEN Path(binpath) ELSE NULL
  ELSE IF ~environ.set THEN NULL
  ELSE WhichScan(environ.text, 1, binpath)

\* the names bcc_procutils_which is asked for
BinNames == {"ls", "/bin/ls", "./ls"}

IdleUtil ==
  /\ environ = Unset
  /\ fs = [p \in FsPaths |-> "absent"]
  /\ utillog = [op |-> "none", name |-> "", backed |-> FALSE, result |-> NULL]

FileBacked ==
  /\ \E name \in PathNames :
       utillog' = [op |-> "is_file_backed", name |-> name,
                   backed |-> bcc_mapping_is_file_backed(name), result |-> NULL]
  /\ UNCHANGED <<environ, fs>>
  /\ UNCHANGED restutil

Which ==
  /\ \E name \in BinNames :
       utillog' = [op |-> "which", name |-> name, backed |-> FALSE,
                   result |-> bcc_procutils_which(name)]
  /\ UNCHANGED <<environ, fs>>
  /\ UNCHANGED restutil

(***************************************************************************)
(* bcc_procutils_each_ksym                                                 *)
(***************************************************************************)
\* the lines /proc/kallsyms may hold: address, type, name and, for a symbol
\* of a module, the module
KsymLines ==
  { [addr |-> 16, type |-> "T", name |-> "_text", mod |-> ""],
    [addr |-> 171, type |-> "t", name |-> "do_one", mod |-> ""],
    [addr |-> 3072, type |-> "t", name |-> "nf_hook", mod |-> "[nf]"] }

\* the text of /proc/kallsyms as the kernel writes it
RECURSIVE KsymsText(_)
KsymsText(ls) ==
  IF ls = <<>> THEN ""
  ELSE ToHex(Head(ls).addr) \o " " \o Head(ls).type \o " " \o Head(ls).name
         \o (IF Head(ls).mod = "" THEN "" ELSE "\t" \o Head(ls).mod) \o "\n"
         \o KsymsText(Tail(ls))

\* addr = strtoull(line, &symname, 16): the value and where the digits end;
\* the start of the line when there is no digit
strtoull(line) ==
  IF ScanInt(line, 1, 16).st = "ok"
  THEN [val |-> ScanInt(line, 1, 16).val, pos |-> ScanInt(line, 1, 16).pos]
  ELSE [val |-> 0, pos |-> 1]

\* endsym = symname = symname + 3
SymStart(endptr) == endptr + 3

\* callback(symname, addr, payload) for one line: the name runs from symname
\* to the next white space
KsymCall(line, a) ==
  [name |-> SubSeq(line, SymStart(a.pos), SkipWord(line, SymStart(a.pos)) - 1),
   addr |-> a.val]

\* while (fgets(line, sizeof(line), kallsyms)) from position p of the text
RECURSIVE KsymScan(_, _, _)

KsymLine(s, g, calls) ==
  IF ~g.ok THEN calls
  ELSE KsymScan(s, g.pos, Append(calls, KsymCall(g.line, strtoull(g.line))))

KsymScan(s, p, calls) == KsymLine(s, fgets(s, p), calls)

\* int bcc_procutils_each_ksym(bcc_procutils_ksymcb callback, void *payload),
\* root being geteuid() == 0
bcc_procutils_each_ksym(root, fopenOk) ==
  IF ~root \/ ~fopenOk
  THEN [ret |-> -1, calls |-> <<>>]
  ELSE IF ~fgets(KsymsText(kallsyms), 1).ok
  THEN [ret |-> -1, calls |-> <<>>]
  ELSE [ret |-> 0,
        calls |-> KsymScan(KsymsText(kallsyms), fgets(KsymsText(kallsyms), 1).pos, <<>>)]

IdleKsym ==
  /\ kallsyms = <<>>
  /\ ksymlog = [op |-> "none", root |-> FALSE, fopenOk |-> FALSE, ret |-> 0,
                calls |-> <<>>]

EachKsym ==
  /\ \E root \in BOOLEAN, fopenOk \in BOOLEAN :
       ksymlog' = [op |-> "each_ksym", root |-> root, fopenOk |-> fopenOk,
                   ret |-> bcc_procutils_each_ksym(root, fopenOk).ret,
                   calls |-> bcc_procutils_each_ksym(root, fopenOk).calls]
  /\ UNCHANGED kallsyms
  /\ UNCHANGED restksym

(***************************************************************************)
(* bcc_procutils_language                                                  *)
(***************************************************************************)
\* const char *languages[], in the order of the array
languages == <<"java", "python", "ruby", "php", "node">>

language_c == "c"

\* for (i = 0; i < nb_languages; i++) if (strstr(line, languages[i])) return
\* languages[i]; with lead put before each name: the index of the language
\* returned, or one more than their number
LanguageIn(str, lead) ==
  IF \E i \in 1 .. Len(languages) : Contains(str, lead \o languages[i])
  THEN CHOOSE i \in 1 .. Len(languages) :
         /\ Contains(str, lead \o languages[i])
         /\ \A j \in 1 .. (i - 1) : ~Contains(str, lead \o languages[j])
  ELSE Len(languages) + 1

\* t starts at position i of s
StartsAt(s, t, i) == i + Len(t) - 1 <= Len(s) /\ SubSeq(s, i, i + Len(t) - 1) = t

\* strstr(s, t): the position of the first t in s, 0 when there is none
strstr(s, t) ==
  IF \E i \in 1 .. Len(s) : StartsAt(s, t, i)
  THEN CHOOSE i \in 1 .. Len(s) :
         StartsAt(s, t, i) /\ \A j \in 1 .. (i - 1) : ~StartsAt(s, t, j)
  ELSE 0

\* (str = strstr(mapname, "libc")) && (str[4] == '-' || str[4] == '.'): the
\* character after the first "libc" of the name; past the end of the name is
\* its terminating 0
LibcIn(mapname) ==
  /\ strstr(mapname, "libc") # 0
  /\ strstr(mapname, "libc") + 4 <= Len(mapname)
  /\ Ch(mapname, strstr(mapname, "libc") + 4) \in {"-", "."}

\* what a scan of the maps file ends with: the language, and whether the
\* stream was closed
LangResult(lang, closed) == [lang |-> lang, closed |-> closed]

\* the do-while loop of bcc_procutils_language from position p of the text
RECURSIVE LangScan(_, _, _)

LangLine(s, r, g, libc) ==
  IF ~g.ok
  THEN LangResult(IF libc THEN Path(language_c) ELSE NULL, TRUE)
  ELSE IF r.ret = 6 /\ LanguageIn(MapName(g.line), "/lib") <= Len(languages)
  THEN LangResult(Path(languages[LanguageIn(MapName(g.line), "/lib")]), FALSE)
  ELSE IF ScanContinues(r.ret)
  THEN LangScan(s, g.pos, libc \/ (r.ret = 6 /\ LibcIn(MapName(g.line))))
  ELSE LangResult(IF libc \/ (r.ret = 6 /\ LibcIn(MapName(g.line)))
                  THEN Path(language_c) ELSE NULL, TRUE)

LangRest(s, r, libc) == LangLine(s, r, fgets(s, r.pos), libc)

LangScan(s, p, libc) == LangRest(s, fscanf_maps(s, p), libc)

\* const char *bcc_procutils_language(int pid): the language, whether the
\* maps file was opened, and whether it was closed
bcc_procutils_language(fopenOk) ==
  IF exe.ok /\ LanguageIn(exe.path, "") <= Len(languages)
  THEN [lang |-> Path(languages[LanguageIn(exe.path, "")]), opened |-> FALSE,
        closed |-> FALSE]
  ELSE IF ~fopenOk
  THEN [lang |-> NULL, opened |-> FALSE, closed |-> FALSE]
  ELSE [lang |-> LangScan(MapsText(maps), 1, FALSE).lang, opened |-> TRUE,
        closed |-> LangScan(MapsText(maps), 1, FALSE).closed]

\* the mappings a file read by bcc_procutils_language may list
LangMappings ==
  { MapFields(10, 11, "r-xp", "0", "8:2", "9", "/lib/libc-2.31.so"),
    MapFields(12, 13, "r-xp", "0", "8:2", "8", "/usr/lib/libpython3.8.so.1"),
    MapFields(14, 15, "r-xp", "0", "8:2", "6", "/usr/lib/libnode.so"),
    MapFields(16, 17, "r-xp", "0", "8:2", "5", "/opt/libcxx/libc.so.6"),
    MapFields(64, 65, "r-xp", "0", "8:2", "7", "/bin/foo") }

\* what realpath("/proc/<pid>/exe") gives: nothing, or the path
ExePaths ==
  { [ok |-> FALSE, path |-> ""],
    [ok |-> TRUE, path |-> "/bin/foo"],
    [ok |-> TRUE, path |-> "/opt/node/bin/ruby"] }

IdleLang ==
  /\ exe = [ok |-> FALSE, path |-> ""]
  /\ langlog = [op |-> "none", pid |-> 0, fopenOk |-> FALSE, lang |-> NULL]

IdleRes ==
  /\ streams = 0
  /\ streamlog = [op |-> "none", before |-> 0]

Language ==
  /\ \E pid \in Pids, fopenOk \in BOOLEAN :
       /\ fopenOk => streams < MaxStreams
       /\ langlog' = [op |-> "language", pid |-> pid, fopenOk |-> fopenOk,
                      lang |-> bcc_procutils_language(fopenOk).lang]
       /\ streams' = StreamsAfter(bcc_procutils_language(fopenOk).opened,
                                  bcc_procutils_language(fopenOk).closed)
       /\ streamlog' = [op |-> "language", before |-> streams]
  /\ UNCHANGED <<exe, maps, modlog>>
  /\ UNCHANGED restlang

(***************************************************************************)
(* Specifications, one for each part of the file.                          *)
(***************************************************************************)
InitNS == IdleNS /\ IdleMod /\ IdleSO /\ IdleUtil /\ IdleKsym /\ IdleLang /\ IdleRes

NextNS == EnterMountns \/ ExitMountns

SpecNS == InitNS /\ [][NextNS]_vars

InitMod ==
  /\ IdleNS
  /\ curns = 1
  /\ pidns = [p \in Pids |-> 1]
  /\ maps \in MapsFiles(MapLines, MaxLines)
  /\ modlog = [op |-> "none", pid |-> 0, ret |-> 0, visits |-> <<>>,
               stopped |-> FALSE, opened |-> FALSE]
  /\ IdleSO
  /\ IdleUtil
  /\ IdleKsym
  /\ IdleLang
  /\ IdleRes

NextMod == EachModule

SpecMod == InitMod /\ [][NextMod]_vars

InitSO ==
  /\ IdleNS
  /\ curns = 1
  /\ pidns = [p \in Pids |-> 1]
  /\ maps \in MapsFiles(OkLines(SoMappings), MaxSoLines)
  /\ modlog = [op |-> "none", pid |-> 0, ret |-> 0, visits |-> <<>>,
               stopped |-> FALSE, opened |-> FALSE]
  /\ lib_cache_count = 0
  /\ lib_cache = <<>>
  /\ ldfile \in LdFiles
  /\ ptrsize \in {4, 8}
  /\ loads = 0
  /\ ldfailed = FALSE
  /\ solog = [op |-> "none", libname |-> "", pid |-> 0, fopenOk |-> FALSE,
              tier |-> 0, result |-> NULL, mapsRead |-> FALSE, loaded |-> FALSE,
              countBefore |-> 0, cacheBefore |-> <<>>, failedBefore |-> FALSE]
  /\ IdleUtil
  /\ IdleKsym
  /\ IdleLang
  /\ IdleRes

NextSO == WhichSo

SpecSO == InitSO /\ [][NextSO]_vars

\* the namespaces at rest, all processes in one namespace
QuietNS == IdleNS /\ curns = 1 /\ pidns = [p \in Pids |-> 1]

InitUtil ==
  /\ QuietNS
  /\ IdleMod
  /\ IdleSO
  /\ environ \in Environs(MaxSegs)
  /\ fs \in [FsPaths -> FsKinds]
  /\ utillog = [op |-> "none", name |-> "", backed |-> FALSE, result |-> NULL]
  /\ IdleKsym
  /\ IdleLang
  /\ IdleRes

NextUtil == FileBacked \/ Which

SpecUtil == InitUtil /\ [][NextUtil]_vars

InitKsym ==
  /\ QuietNS
  /\ IdleMod
  /\ IdleSO
  /\ IdleUtil
  /\ kallsyms \in MapsFiles(KsymLines, MaxKsyms)
  /\ ksymlog = [op |-> "none", root |-> FALSE, fopenOk |-> FALSE, ret |-> 0,
                calls |-> <<>>]
  /\ IdleLang
  /\ IdleRes

NextKsym == EachKsym

SpecKsym == InitKsym /\ [][NextKsym]_vars

InitLang ==
  /\ QuietNS
  /\ maps \in MapsFiles(OkLines(LangMappings), MaxLangLines)
  /\ modlog = [op |-> "none", pid |-> 0, ret |-> 0, visits |-> <<>>,
               stopped |-> FALSE, opened |-> FALSE]
  /\ IdleSO
  /\ IdleUtil
  /\ IdleKsym
  /\ exe \in ExePaths
  /\ langlog = [op |-> "none", pid |-> 0, fopenOk |-> FALSE, lang |-> NULL]
  /\ IdleRes

NextLang == Language

SpecLang == InitLang /\ [][NextLang]_vars

(***************************************************************************)
(* Properties of the mount namespace guard.                                *)
(***************************************************************************)
\* an exit call that directly follows an enter call on the same cookie
ExitAfterEnter ==
  /\ nslog.op = "exit"
  /\ nslog.prev.op = "enter"
  /\ nslog.ncNull = nslog.prev.ncNull

\* C3 as stated: after enter(pid, nc) followed immediately by exit(nc), for
\* every outcome of open, fstat and setns, the thread is back in the namespace
\* it was in before enter and every descriptor enter opened is closed.
C3_EnterExitRestoresAlways ==
  ExitAfterEnter =>
    /\ curns = nslog.prev.nsBefore
    /\ fdtab = nslog.prev.fdsBefore

\* C3 amended: after enter immediately followed by exit, every descriptor enter
\* opened is closed, and the thread is back in the namespace it was in before
\* enter unless the setns call made by exit failed; in that case exit returns
\* false and the thread is still in the target namespace.
C3_EnterExitRestores ==
  ExitAfterEnter =>
    /\ fdtab = nslog.prev.fdsBefore
    /\ (nslog.setns = 0 \/ nslog.ret) => curns = nslog.prev.nsBefore
    /\ (nslog.setns = 1 /\ ~nslog.ret) => curns = nslog.prev.target

C3_Witness ==
  /\ ExitAfterEnter
  /\ nslog.prev.ret
  /\ nslog.ret
  /\ nslog.prev.target # nslog.prev.nsBefore
  /\ curns = nslog.prev.nsBefore

\* an enter call whose target namespace is the caller's own, reaching the
\* comparison of the two inodes
EnterSameNs ==
  /\ nslog.op = "enter"
  /\ ~nslog.ncNull
  /\ nslog.statOk
  /\ nslog.target = nslog.nsBefore

\* C4 as stated: entering a namespace with the caller's own inode never calls
\* setns, leaves the namespace unchanged and returns success.
C4_SameNsSuccess ==
  EnterSameNs =>
    /\ nslog.setns = 0
    /\ curns = nslog.nsBefore
    /\ nslog.ret = TRUE

\* C4 amended: entering a namespace with the caller's own inode never calls
\* setns and leaves the namespace unchanged, and it returns false, with both
\* descriptors closed and the cookie reset.
C4_SameNsNoop ==
  EnterSameNs =>
    /\ nslog.setns = 0
    /\ curns = nslog.nsBefore
    /\ nslog.ret = FALSE
    /\ fdtab = nslog.fdsBefore
    /\ nc = [nsc_oldns |-> NoFd, nsc_newns |-> NoFd]

C4_Witness ==
  /\ EnterSameNs
  /\ Cardinality(nslog.opened) = 2

\* C5: an enter call that returns false has closed every descriptor it opened,
\* leaves both cookie fields at -1 and the namespace unchanged; one that
\* returns true leaves in the cookie two open descriptors, of the original and
\* of the target namespace, and the thread in the target namespace.
C5_EnterOutcome ==
  (nslog.op = "enter") =>
    IF nslog.ret
    THEN /\ ~nslog.ncNull
         /\ nc.nsc_oldns \in DOMAIN fdtab
         /\ nc.nsc_newns \in DOMAIN fdtab
         /\ nc.nsc_oldns # nc.nsc_newns
         /\ nslog.opened = {nc.nsc_oldns, nc.nsc_newns}
         /\ nslog.closed = {}
         /\ fdtab[nc.nsc_oldns] = nslog.nsBefore
         /\ fdtab[nc.nsc_newns] = nslog.target
         /\ curns = nslog.target
    ELSE /\ fdtab = nslog.fdsBefore
         /\ nslog.closed = nslog.opened
         /\ curns = nslog.nsBefore
         /\ IF nslog.ncNull
            THEN nc = nslog.ncBefore
            ELSE nc = [nsc_oldns |-> NoFd, nsc_newns |-> NoFd]

C5_Witness ==
  /\ nslog.op = "enter"
  /\ ~nslog.ret
  /\ nslog.setns = 1
  /\ Cardinality(nslog.closed) = 2

\* an exit call directly after an exit call on the same cookie
SecondExit ==
  /\ nslog.op = "exit"
  /\ ~nslog.ncNull
  /\ nslog.prev.op = "exit"
  /\ ~nslog.prev.ncNull

\* C6: an exit on an entered cookie closes both descriptors and resets both
\* cookie fields, and a further exit on the same cookie returns false, calls
\* setns not at all and closes no descriptor.
C6_ExitIdempotent ==
  /\ (nslog.op = "exit" /\ nslog.entered) =>
       /\ nslog.closed = {nslog.ncBefore.nsc_oldns, nslog.ncBefore.nsc_newns}
       /\ nc = [nsc_oldns |-> NoFd, nsc_newns |-> NoFd]
  /\ SecondExit =>
       /\ nslog.ret = FALSE
       /\ nslog.setns = 0
       /\ nslog.closed = {}
       /\ fdtab = nslog.fdsBefore
       /\ curns = nslog.nsBefore

C6_Witness ==
  /\ SecondExit
  /\ nslog.prev.entered

(***************************************************************************)
(* Properties of bcc_procutils_each_module.                                *)
(***************************************************************************)
\* the six prefixes of pathnames that name no file
ExcludedPrefixes ==
  {"//anon", "/dev/zero", "/anon_hugepage", "[stack", "/SYSV", "[heap]"}

\* a well-formed line of an executable mapping of a file
ExecFileLine(l) ==
  /\ l.kind = "ok"
  /\ \E i \in 1 .. Len(l.f.perm) : SubSeq(l.f.perm, i, i) = "x"
  /\ l.f.path # ""
  /\ \A pre \in ExcludedPrefixes :
       Len(l.f.path) < Len(pre) \/ SubSeq(l.f.path, 1, Len(pre)) # pre

\* the visitor calls the lines of the file ask for, in file order
ExpectedVisits ==
  LET sel == SelectSeq(maps, ExecFileLine)
  IN  [i \in 1 .. Len(sel) |-> Visit(sel[i].f.path, sel[i].f.begin, sel[i].f.end)]

\* the call for the perf-map fallback: the perf-map path and (0, max_u64)
PerfMapVisit == Visit("/tmp/perf-" \o ToString(modlog.pid) \o ".map", 0, -1)

AllWellFormed == \A i \in 1 .. Len(maps) : maps[i].kind = "ok"

\* a call of each_module that opened the maps file
ScannedMaps == modlog.op = "each_module" /\ modlog.opened

C8_StopSkipsPerfMap ==
  (ScannedMaps /\ modlog.stopped) =>
    /\ \A i \in 1 .. Len(modlog.visits) : modlog.visits[i] # PerfMapVisit
    /\ modlog.ret = 0

\* whether a is b with some of its elements left out
RECURSIVE IsSubseq(_, _)
IsSubseq(a, b) ==
  IF a = <<>> THEN TRUE
  ELSE IF b = <<>> THEN FALSE
  ELSE IF Head(a) = Head(b) THEN IsSubseq(Tail(a), Tail(b))
  ELSE IsSubseq(a, Tail(b))

\* C9 as stated: lines that do not parse into six leading fields are skipped;
\* whatever such lines the file holds, the visitor is still called for every
\* well-formed executable file-backed line before or after them, and the call
\* returns 0.
C9_MalformedLinesSkipped ==
  (ScannedMaps /\ ~modlog.stopped) =>
    /\ IsSubseq(ExpectedVisits, modlog.visits)
    /\ modlog.ret = 0


(***************************************************************************)
(* Properties of bcc_procutils_which_so (SpecSO).                          *)
(***************************************************************************)
\* C1: across the bcc_procutils_which_so calls of one process, for every
\* cache file, load_ld_cache is invoked at most once. The code loads an
\* empty cache again on every lookup that reaches it, so this is violated.
C1_LoadedAtMostOnce == loads <= 1

\* a later call reached the ld cache after load_ld_cache had failed
AfterFailedLoad == solog.op = "which_so" /\ solog.failedBefore /\ solog.tier = 3

\* C2: once load_ld_cache has failed, lib_cache_count is -1 in every later
\* state, and every later call that reaches the ld cache returns NULL and does
\* not call load_ld_cache again.
C2_FailurePermanent ==
  /\ ldfailed => lib_cache_count = -1
  /\ solog.failedBefore => ~solog.loaded /\ solog.countBefore = -1
  /\ AfterFailedLoad => ~solog.result.ok /\ loads = 1

C2_Witness == AfterFailedLoad /\ solog.pid # 0 /\ solog.fopenOk

\* the pathname of a maps line is one which_so_in_process looks for
LineMatches(l, libname) ==
  /\ Contains(l.f.path, ".so")
  /\ Contains(l.f.path, "/lib" \o libname \o ".")
       \/ Contains(l.f.path, "/lib" \o libname \o "-")

\* the maps file of the process of the last call could be read and has a line
\* for the library asked for
LiveHit ==
  /\ solog.pid # 0
  /\ solog.fopenOk
  /\ \E i \in 1 .. Len(maps) : LineMatches(maps[i], solog.libname)

\* the pathname of the first such line
FirstLiveHit ==
  maps[CHOOSE i \in 1 .. Len(maps) :
         /\ LineMatches(maps[i], solog.libname)
         /\ \A j \in 1 .. (i - 1) : ~LineMatches(maps[j], solog.libname)].f.path

CacheUntouched ==
  /\ ~solog.loaded
  /\ lib_cache_count = solog.countBefore
  /\ lib_cache = solog.cacheBefore

Lib64Tags == {1, 2, 3, 4, 5}

\* the ABI filter as the claim states it: the low byte is the libc6 type, and
\* the tag byte is one of the five exactly when pointers are 8 bytes wide
FlagsAccepted(flags, ptr) ==
  /\ flags % 256 = 3
  /\ IF (flags \div 256) % 256 \in Lib64Tags THEN ptr = 8 ELSE ptr = 4

\* entry i of the table is for the library asked for and passes the filter
EntryFits(i) ==
  /\ Len(lib_cache[i].libname) >= Len("lib" \o solog.libname \o ".so")
  /\ SubSeq(lib_cache[i].libname, 1, Len("lib" \o solog.libname \o ".so"))
       = "lib" \o solog.libname \o ".so"
  /\ FlagsAccepted(lib_cache[i].flags, ptrsize)

\* the last call looked the library up in the table
LookedUp == solog.op = "which_so" /\ solog.tier = 3 /\ lib_cache_count >= 0

\* C11: the ld cache lookup returns the path of the lowest-index entry whose
\* name begins with "lib<name>.so" and whose flags pass the ABI filter, and
\* NULL when there is no such entry.
C11_CacheLookup ==
  LookedUp =>
    IF \E i \in 1 .. lib_cache_count : EntryFits(i)
    THEN solog.result =
           Path(lib_cache[CHOOSE i \in 1 .. lib_cache_count :
                            EntryFits(i) /\ \A j \in 1 .. (i - 1) : ~EntryFits(j)].path)
    ELSE solog.result = NULL

C11_Witness ==
  /\ LookedUp
  /\ lib_cache_count = 4
  /\ solog.libname = "z"
  /\ \/ ptrsize = 8 /\ solog.result = Path("/d/libz.so.1")
     \/ ptrsize = 4 /\ solog.result = Path("/c/libz.so.1")


\* the last call loaded the cache file
LoadedNow == solog.op = "which_so" /\ solog.loaded

\* C12 as stated: a file in the old format alone loads, whatever the length
\* of its strings, and gives one table entry for each of its entries; a new
\* format table after the old format part is the one parsed when it is there;
\* a file with neither header fails to load. The code takes every file with
\* the old header and more than cache1_len + 48 bytes to hold a new format
\* table, so the first part is violated.
C12_PureV1Loads ==
  LoadedNow =>
    /\ \A es \in PureV1Lists :
         ldfile = V1File(es) => ~ldfailed /\ lib_cache_count = Len(es) /\ lib_cache = es
    /\ \A es \in EmbeddedLists :
         ldfile = V1V2File(1, es) =>
           ~ldfailed /\ lib_cache_count = Len(es) /\ lib_cache = es
    /\ (ldfile.fails = "none" /\ ldfile.size >= SizeofCache1
          /\ ~HasMagic(ldfile, 0, CACHE1_HEADER) /\ ~HasMagic(ldfile, 0, CACHE2_HEADER))
         => ldfailed


\* the offset in the file of the new format table the last load parsed
TableBase == IF HasMagic(ldfile, 0, CACHE1_HEADER) THEN Cache1Len(ldfile) ELSE 0

\* the last call loaded the cache file and parsed a new format table
ParsedV2 ==
  /\ LoadedNow
  /\ ~ldfailed
  /\ HasMagic(ldfile, TableBase, CACHE2_HEADER)

\* the key and value fields of entry i of that table
KeyField(i) == U32At(ldfile, TableBase + SizeofCache2 + SizeofEntry2 * (i - 1) + KeyOff)

ValueField(i) ==
  U32At(ldfile, TableBase + SizeofCache2 + SizeofEntry2 * (i - 1) + ValueOff)

\* C13 as stated: the name and the path of every entry of a parsed new format
\* table are the strings at offsets key and value of the file. For a table
\* that follows an old format part this is violated.
C13_OffsetsFromFileStart ==
  ParsedV2 =>
    \A i \in 1 .. lib_cache_count :
      /\ lib_cache[i].libname = StrAt(ldfile, KeyField(i))
      /\ lib_cache[i].path = StrAt(ldfile, ValueField(i))

\* C13: the name and the path of every entry of a parsed new format table are
\* the strings at offsets key and value counted from the start of that table:
\* offset 0 of the file for a file in the new format alone, the end of the
\* 8-byte aligned old format part for a table that follows one.
C13_OffsetsFromTable ==
  ParsedV2 =>
    \A i \in 1 .. lib_cache_count :
      /\ lib_cache[i].libname = StrAt(ldfile, TableBase + KeyField(i))
      /\ lib_cache[i].path = StrAt(ldfile, TableBase + ValueField(i))

C13_Witness ==
  /\ ParsedV2
  /\ TableBase > 0
  /\ lib_cache_count = 1
  /\ lib_cache[1].libname = "libq.so"
  /\ lib_cache[1].path = "/usr/lib64/libq.so"


\* C14: loading a file in the new format built from N entries leaves a table
\* of exactly N entries, in the order of the file, each with the name, the path
\* and the flags of its file entry.
C14_V2RoundTrip ==
  LoadedNow =>
    \A es \in V2Lists :
      ldfile = V2File(es) =>
        /\ ~ldfailed
        /\ lib_cache_count = Len(es)
        /\ Len(lib_cache) = Len(es)
        /\ \A i \in 1 .. Len(es) : lib_cache[i] = es[i]

C14_Witness ==
  /\ LoadedNow
  /\ ldfile = V2File(MixedEntries)
  /\ lib_cache_count = 4
  /\ lib_cache[3] = LdEntry("libz.so.1", "/c/libz.so.1", FlagsOtherAbi)


(***************************************************************************)
(* Properties of bcc_mapping_is_file_backed and bcc_procutils_which        *)
(* (SpecUtil).                                                             *)
(***************************************************************************)
\* the name of the last bcc_mapping_is_file_backed call starts with one of the
\* six prefixes
StartsExcluded ==
  \E pre \in ExcludedPrefixes :
    /\ Len(utillog.name) >= Len(pre)
    /\ SubSeq(utillog.name, 1, Len(pre)) = pre

\* C15 as stated: a pathname is reported as not file-backed exactly when it
\* starts with one of the six prefixes; every other pathname, the empty one
\* included, is file-backed. The code reports the empty pathname as not
\* file-backed, so this is violated.
C15_PrefixTestOnly ==
  utillog.op = "is_file_backed" => (utillog.backed <=> ~StartsExcluded)

\* C15: a pathname is reported as not file-backed exactly when it is empty or
\* starts with one of the six prefixes.
C15_PrefixOrEmpty ==
  utillog.op = "is_file_backed" =>
    (utillog.backed <=> (utillog.name # "" /\ ~StartsExcluded))

C15_Witness ==
  /\ utillog.op = "is_file_backed"
  /\ utillog.name = ""
  /\ ~utillog.backed


\* there is an executable regular file at path p
ExeFile(p) == p \in DOMAIN fs /\ fs[p] = "exe"

\* the file a segment of PATH stands for, an empty segment being the current
\* directory
CandidateCwd(seg) ==
  IF seg = "" THEN "./" \o utillog.name ELSE seg \o "/" \o utillog.name

\* the segments of PATH, in order, that have the file asked for
HitsCwd == SelectSeq(environ.segs, LAMBDA seg : ExeFile(CandidateCwd(seg)))

\* the same with the empty segments left out
HitsNonEmpty ==
  SelectSeq(environ.segs, LAMBDA seg : seg # "" /\ ExeFile(seg \o "/" \o utillog.name))

\* the last call was bcc_procutils_which for a name with, or without, a '/'
WhichPath == utillog.op = "which" /\ HasChar(utillog.name, "/")

WhichName == utillog.op = "which" /\ ~HasChar(utillog.name, "/")

\* C16 as stated: a name with a '/' is returned iff it is an executable
\* regular file; any other name is looked for in the segments of PATH in
\* order, an empty segment standing for the current directory, and the result
\* is "<segment>/<name>" for the first segment that has it, NULL when none has
\* or PATH is not set. The code skips empty segments, so this is violated.
C16_WhichCwd ==
  /\ WhichPath =>
       utillog.result = IF ExeFile(utillog.name) THEN Path(utillog.name) ELSE NULL
  /\ WhichName =>
       IF ~environ.set \/ HitsCwd = <<>>
       THEN utillog.result = NULL
       ELSE IF HitsCwd[1] = ""
       THEN utillog.result \in {Path("/" \o utillog.name), Path("./" \o utillog.name)}
       ELSE utillog.result = Path(HitsCwd[1] \o "/" \o utillog.name)

\* C16: a name with a '/' is returned iff it is an executable regular file;
\* any other name is looked for in the segments of PATH that are not empty, in
\* order, and the result is "<segment>/<name>" for the first that has it, NULL
\* when none has or PATH is not set.
C16_WhichSkipsEmpty ==
  /\ WhichPath =>
       utillog.result = IF ExeFile(utillog.name) THEN Path(utillog.name) ELSE NULL
  /\ WhichName =>
       IF ~environ.set \/ HitsNonEmpty = <<>>
       THEN utillog.result = NULL
       ELSE utillog.result = Path(HitsNonEmpty[1] \o "/" \o utillog.name)

C16_Witness ==
  /\ WhichName
  /\ environ.segs = <<"", "/opt">>
  /\ fs["./ls"] = "exe"
  /\ fs["/bin/ls"] = "dir"
  /\ fs["/opt/ls"] = "exe"
  /\ utillog.result = Path("/opt/ls")


(***************************************************************************)
(* Properties of bcc_procutils_each_ksym (SpecKsym).                       *)
(***************************************************************************)
\* C17 as stated: a privileged caller that can read /proc/kallsyms has the
\* callback invoked once for every line of the file, in file order, with the
\* address and the name of the line; a caller that is not privileged gets a
\* failure and no callback. The code reads the first line and drops it, so
\* this is violated.
C17_EveryLineReported ==
  ksymlog.op = "each_ksym" =>
    /\ (ksymlog.root /\ ksymlog.fopenOk) =>
         /\ Len(ksymlog.calls) = Len(kallsyms)
         /\ \A i \in 1 .. Len(kallsyms) :
              ksymlog.calls[i] = [name |-> kallsyms[i].name, addr |-> kallsyms[i].addr]
    /\ ~ksymlog.root => ksymlog.ret = -1 /\ ksymlog.calls = <<>>

(***************************************************************************)
(* bcc_procutils_language: the order of the decision                       *)
(***************************************************************************)
\* an interpreter name is a substring of the resolved path of the executable
ExeNamesInterpreter ==
  exe.ok /\ \E i \in 1 .. Len(languages) : Contains(exe.path, languages[i])

\* the first such name, in the order of the array
ExeInterpreter ==
  languages[CHOOSE i \in 1 .. Len(languages) :
              /\ Contains(exe.path, languages[i])
              /\ \A j \in 1 .. (i - 1) : ~Contains(exe.path, languages[j])]

\* the pathname of a maps line contains "/lib<interpreter>"
LineNamesInterpreter(l) ==
  \E i \in 1 .. Len(languages) : Contains(l.f.path, "/lib" \o languages[i])

\* the interpreter of the first such line of the file
MapsInterpreter ==
  LET l == maps[CHOOSE i \in 1 .. Len(maps) :
                  /\ LineNamesInterpreter(maps[i])
                  /\ \A j \in 1 .. (i - 1) : ~LineNamesInterpreter(maps[j])]
  IN  languages[CHOOSE i \in 1 .. Len(languages) :
                  /\ Contains(l.f.path, "/lib" \o languages[i])
                  /\ \A j \in 1 .. (i - 1) :
                       ~Contains(l.f.path, "/lib" \o languages[j])]

\* the pathname contains "libc" immediately followed by '-' or '.'
NamesLibc(path) == Contains(path, "libc-") \/ Contains(path, "libc.")

\* C18: bcc_procutils_language decides in this order: the first interpreter
\* name that is a substring of the resolved path of the executable; otherwise
\* the interpreter of the first maps line whose pathname contains
\* "/lib<interpreter>"; otherwise "c" if and only if some mapped pathname
\* contains "libc" immediately followed by '-' or '.'; otherwise no language.
\* The code tests the character after the first "libc" of a pathname only, so
\* this is violated by a pathname such as /opt/libcxx/libc.so.6.
C18_LanguageOrder ==
  langlog.op = "language" =>
    langlog.lang =
      IF ExeNamesInterpreter THEN Path(ExeInterpreter)
      ELSE IF ~langlog.fopenOk THEN NULL
      ELSE IF \E i \in 1 .. Len(maps) : LineNamesInterpreter(maps[i])
      THEN Path(MapsInterpreter)
      ELSE IF \E i \in 1 .. Len(maps) : NamesLibc(maps[i].f.path)
      THEN Path(language_c)
      ELSE NULL

\* C19: after any call of bcc_procutils_each_module, which_so_in_process or
\* bcc_procutils_language, the number of open streams equals the number
\* before the call. bcc_procutils_language returns the interpreter it finds
\* in the mappings without closing the stream, so this is violated.
C19_StreamsClosed ==
  streamlog.op # "none" => streams = streamlog.before

(***************************************************************************)
(* load_ld_cache: reads of the mapping                                     *)
(***************************************************************************)
\* the table the load parses, of count entries with their strings counted
\* from strs, lies in the file
TableInFile(entries, entsize, count, strs) ==
  /\ entries + entsize * count <= ldfile.size
  /\ \A i \in 1 .. count :
       /\ strs + U32At(ldfile, entries + entsize * (i - 1) + KeyOff) < ldfile.size
       /\ strs + U32At(ldfile, entries + entsize * (i - 1) + ValueOff) < ldfile.size

\* the entry count and the offsets of the file fit in the file
FitsInFile ==
  IF HasMagic(ldfile, TableBase, CACHE2_HEADER)
  THEN /\ TableBase + SizeofCache2 <= ldfile.size
       /\ TableInFile(TableBase + SizeofCache2, SizeofEntry2,
                      U32At(ldfile, TableBase + Cache2CountOff), TableBase)
  ELSE HasMagic(ldfile, 0, CACHE1_HEADER) =>
         TableInFile(SizeofCache1, SizeofEntry1, U32At(ldfile, Cache1CountOff),
                     SizeofCache1 + SizeofEntry1 * U32At(ldfile, Cache1CountOff))

\* the last call loaded a cache file that could be opened and mapped
MappedNow ==
  LoadedNow /\ ldfile.fails = "none" /\ ldfile.size >= SizeofCache1

\* C20: load_ld_cache never reads outside the mapped file: every header,
\* entry and string start it dereferences lies in [0, ld_size), and a file
\* whose entry count or offsets do not fit in the file fails to load; on
\* every return path after a successful open the descriptor is closed and a
\* mapping created is unmapped. The code compares no count or offset with
\* ld_size, so the first two parts are violated.
C20_ReadsInsideFile ==
  LoadedNow =>
    /\ \A r \in load_ld_cache_reads(ldfile) : 0 <= r[1] /\ r[2] < ldfile.size
    /\ (MappedNow /\ ~FitsInFile) => ldfailed
    /\ load_ld_cache_res(ldfile).opened => load_ld_cache_res(ldfile).closed
    /\ load_ld_cache_res(ldfile).mapped => load_ld_cache_res(ldfile).unmapped

====
